---- MODULE Spec2Model ----
(***************************************************************************)
(* A model of hanzo/warctools/stream.py: the record streams over an        *)
(* uncompressed file, a file of per-record gzip members and a whole-file   *)
(* gzip, their skip-to-end-of-record bookkeeping, the two iteration        *)
(* generators and the factory open_record_stream.                          *)
(*                                                                         *)
(* Python 2 semantics are assumed throughout (the module raises            *)
(* StandardError): `nrecords < None` is False, never a TypeError.          *)
(***************************************************************************)
EXTENDS Integers, Sequences, FiniteSets, TLC

VARIABLES
    mode,          \* which class the stream is: "none" | "record" | "file"
    file,          \* layout of the container: a sequence of record units
    trunc,         \* bytes missing from the end of the container
    pos,           \* position of self.fh (the decompressed position under gzip)
    bytes_to_eor,  \* self.bytes_to_eor: None or an integer
    last,          \* what the most recent _read_record call did
    gen,           \* the read_records generator
    it,            \* the __iter__ generator
    lastOp,        \* the most recent public read / readline / seek / write
    ops,           \* number of calls made on the stream by its user
    fin,           \* arguments of an open_record_stream call
    fout,          \* what that call did
    closed         \* which of self.fh and the raw source have been closed

vars == <<mode, file, trunc, pos, bytes_to_eor, last, gen, it, lastOp, ops, fin, fout, closed>>

----------------------------------------------------------------------------
(* Bounds of the model *)

MaxRecords == 2
MaxOps == 2
MaxTrunc == 1
MaxLimit == 2

(* Program constant *)

CHUNK_SIZE == 8192

----------------------------------------------------------------------------
(* Python's None and a present value *)

None == <<>>
Some(v) == <<v>>

Min(a, b) == IF a < b THEN a ELSE b
Max(a, b) == IF a > b THEN a ELSE b

----------------------------------------------------------------------------
(* The container file.  A unit is one record: hdr bytes the codec always    *)
(* reads, then body bytes it declares through bytes_to_eor.  kind says what *)
(* the codec makes of it: "ok" a record, "warn" a record with an error,     *)
(* "bad" no record and two errors.                                          *)

Shapes ==
    { [hdr |-> 2, body |-> 3,                  kind |-> "warn"],
      [hdr |-> 1, body |-> CHUNK_SIZE,         kind |-> "ok"],
      [hdr |-> 1, body |-> 2 * CHUNK_SIZE + 1, kind |-> "bad"] }

UnitLen(u) == u.hdr + u.body

\* Compressed size of one unit's gzip member.
RawLen(u) == 2 + (UnitLen(u) \div 4)

RECURSIVE UnitStartIn(_, _)
UnitStartIn(f, i) == IF i <= 1 THEN 0 ELSE UnitStartIn(f, i - 1) + UnitLen(f[i - 1])

RECURSIVE RawStartIn(_, _)
RawStartIn(f, i) == IF i <= 1 THEN 0 ELSE RawStartIn(f, i - 1) + RawLen(f[i - 1])

\* A file: its units, each with the offset it starts at in the decompressed
\* bytes (start) and in the compressed bytes (raw), and an end marker unit.
Layout(f) ==
    [i \in 1..(Len(f) + 1) |->
        [hdr |-> IF i <= Len(f) THEN f[i].hdr ELSE 0,
         body |-> IF i <= Len(f) THEN f[i].body ELSE 0,
         kind |-> IF i <= Len(f) THEN f[i].kind ELSE "end",
         start |-> UnitStartIn(f, i),
         raw |-> RawStartIn(f, i)]]

Files == { Layout(f) : f \in UNION { [1..n -> Shapes] : n \in 0..MaxRecords } }

NUnits == Len(file) - 1
UnitStart(i) == file[i].start
RawStart(i) == file[i].raw
Total == file[Len(file)].start

\* Number of bytes the source really holds.
SrcLen == Max(0, Total - trunc)

\* The unit that starts at p, or 0.
UnitAt(p) ==
    IF \E i \in 1..NUnits : UnitStart(i) = p
    THEN CHOOSE i \in 1..NUnits : UnitStart(i) = p
    ELSE 0

\* The unit whose bytes contain p (the last one when p is the end).
UnitOf(p) ==
    IF \E i \in 1..NUnits : UnitStart(i) <= p /\ p < UnitStart(i + 1)
    THEN CHOOSE i \in 1..NUnits : UnitStart(i) <= p /\ p < UnitStart(i + 1)
    ELSE NUnits

AtBoundary(p) == \E i \in 1..Len(file) : UnitStart(i) = p

\* End of the line that starts at p: the end of a header or of a body.
LineEnd(p) ==
    LET ends == { UnitStart(i) + file[i].hdr : i \in 1..NUnits }
                    \cup { UnitStart(i + 1) : i \in 1..NUnits }
        after == { e \in ends : e > p }
    IN  IF after = {} THEN Max(p, Total)
        ELSE CHOOSE e \in after : \A x \in after : e <= x

----------------------------------------------------------------------------
(* The byte source *)

\* fh.read(count) at position p: how many bytes come back.
FhRead(p, count) == Min(count, Max(0, SrcLen - p))

\* fh.readline() at position p: how many bytes come back.
FhReadline(p) == Max(0, Min(LineEnd(p), SrcLen) - p)

\* raw_fh.tell() under a gzip adapter at decompressed position p: the start
\* of the next member when the previous member has just been read to its
\* end, and otherwise wherever the adapter's read-ahead has got to.
\* (inside the member when ~far, at the member's end when far).
RawTell(p, far) ==
    IF AtBoundary(p)
    THEN RawStart(CHOOSE i \in 1..Len(file) : UnitStart(i) = p)
    ELSE IF far THEN RawStart(UnitOf(p) + 1) ELSE RawStart(UnitOf(p)) + 1

----------------------------------------------------------------------------
(* RecordStream.read and RecordStream.readline on a stream value            *)
(* s = [pos, bte]; the result carries the new stream and the bytes returned *)

Read(s, count) ==
    LET n == FhRead(s.pos, count)
    IN  [s |-> [pos |-> s.pos + n,
                bte |-> IF s.bte # None THEN Some(s.bte[1] - n) ELSE None],
         n |-> n]

Readline(s) ==
    LET n == FhReadline(s.pos)
    IN  [s |-> [pos |-> s.pos + n,
                bte |-> IF s.bte # None THEN Some(s.bte[1] - n) ELSE None],
         n |-> n]

----------------------------------------------------------------------------
(* RecordStream._skip_to_eor *)

RECURSIVE SkipLoop(_, _)
SkipLoop(s, reads) ==
    IF s.bte[1] > 0
    THEN LET read_size == Min(CHUNK_SIZE, s.bte[1])
             r == Read(s, read_size)
         IN  IF r.n < read_size
             THEN [s |-> r.s, exc |-> "short", reads |-> Append(reads, read_size)]
             ELSE SkipLoop(r.s, Append(reads, read_size))
    ELSE [s |-> s, exc |-> "none", reads |-> reads]

\* Mutant: one chunk is read and the loop is not repeated.
SkipToEorOneChunk(s) ==
    IF s.bte = None
    THEN [s |-> s, exc |-> "unset", reads |-> <<>>]
    ELSE IF s.bte[1] > 0
    THEN LET read_size == Min(CHUNK_SIZE, s.bte[1])
             r == Read(s, read_size)
         IN  IF r.n < read_size
             THEN [s |-> r.s, exc |-> "short", reads |-> <<read_size>>]
             ELSE [s |-> r.s, exc |-> "none", reads |-> <<read_size>>]
    ELSE [s |-> s, exc |-> "none", reads |-> <<>>]

RECURSIVE SkipLoopSilent(_, _)
SkipLoopSilent(s, reads) ==
    IF s.bte[1] > 0
    THEN LET read_size == Min(CHUNK_SIZE, s.bte[1])
             r == Read(s, read_size)
         IN  IF r.n < read_size
             THEN [s |-> r.s, exc |-> "none", reads |-> Append(reads, read_size)]
             ELSE SkipLoopSilent(r.s, Append(reads, read_size))
    ELSE [s |-> s, exc |-> "none", reads |-> reads]

\* Mutant: a short read ends the skip without an error.
SkipToEorSilent(s) ==
    IF s.bte = None
    THEN [s |-> s, exc |-> "unset", reads |-> <<>>]
    ELSE SkipLoopSilent(s, <<>>)

\* Mutant: the rest of the record is asked for in one read, however long.
SkipToEorWholeRead(s) ==
    IF s.bte = None
    THEN [s |-> s, exc |-> "unset", reads |-> <<>>]
    ELSE IF s.bte[1] > 0
    THEN LET read_size == s.bte[1]
             r == Read(s, read_size)
         IN  [s |-> r.s, exc |-> IF r.n < read_size THEN "short" ELSE "none",
              reads |-> <<read_size>>]
    ELSE [s |-> s, exc |-> "none", reads |-> <<>>]

\* Mutant: the loop runs while the counter is not zero, so a counter below
\* zero asks for a read too, which takes the rest of the source.
SkipToEorUntilZero(s) ==
    IF s.bte = None
    THEN [s |-> s, exc |-> "unset", reads |-> <<>>]
    ELSE IF s.bte[1] < 0
    THEN LET n == Max(0, SrcLen - s.pos)
         IN  [s |-> [pos |-> s.pos + n, bte |-> Some(s.bte[1] - n)],
              exc |-> "none", reads |-> <<s.bte[1]>>]
    ELSE SkipLoop(s, <<>>)

SkipToEor(s) ==
    IF s.bte = None
    THEN [s |-> s, exc |-> "unset", reads |-> <<>>]
    ELSE SkipLoop(s, <<>>)

----------------------------------------------------------------------------
(* The record codec, record_parser.parse(stream, offset).  It reads through *)
(* the stream, sets bytes_to_eor to the declared body length once it has    *)
(* the header, reads the whole body itself when full and none of it         *)
(* otherwise, and returns the record, the errors and the offset where the   *)
(* record began: the hint it was given, moved past a line it rejected.      *)

KindErrors(kind) ==
    CASE kind = "ok" -> <<>>
      [] kind = "warn" -> <<"odd header">>
      [] OTHER -> <<"bad header", "bad length">>

Parse(s, hint, full) ==
    LET i == UnitAt(s.pos)
    IN  IF s.pos >= SrcLen
        THEN \* readline() returns nothing: clean end of the stream
             [s |-> Readline(s).s, record |-> None, errors |-> <<>>, offset |-> hint]
        ELSE IF i = 0
        THEN \* not the start of a record: one line read and rejected
             [s |-> Readline(s).s, record |-> None,
              errors |-> <<"ignored line">>,
              offset |-> IF hint = None THEN None ELSE Some(hint[1] + Readline(s).n)]
        ELSE LET u == file[i]
                 h == Read(s, u.hdr)
             IN  IF h.n < u.hdr
                 THEN [s |-> h.s, record |-> None,
                       errors |-> <<"truncated header">>, offset |-> hint]
                 ELSE LET declared == [h.s EXCEPT !.bte = Some(u.body)]
                          b == Read(declared, IF full THEN u.body ELSE 0)
                      IN  [s |-> b.s,
                           record |-> IF u.kind = "bad" THEN None ELSE Some(i),
                           errors |-> KindErrors(u.kind),
                           offset |-> hint]

----------------------------------------------------------------------------
(* _read_record of the three classes.  The result says what the call did:   *)
(* exc is "none" when it returned; reads are the sizes the skip asked for.  *)
(* skipEnd is the counter as the skip left it.                              *)

Raised(sk) ==
    [s |-> sk.s, exc |-> sk.exc, reads |-> sk.reads, skipEnd |-> sk.s.bte,
     parsed |-> FALSE,
     parsePos |-> 0, bteAtParse |-> None, told |-> "none", hint |-> None,
     codecOffset |-> None, offset |-> None, record |-> None, errors |-> <<>>]

NoSkip(s) == [s |-> s, exc |-> "none", reads |-> <<>>]

\* Mutant: the position is taken before the previous record is skipped.
ReadRecordBaseTellFirst(s, offsets, full) ==
    LET sk == IF s.bte # None THEN SkipToEor(s) ELSE NoSkip(s)
    IN  IF sk.exc # "none" THEN Raised(sk)
        ELSE LET cleared == [sk.s EXCEPT !.bte = None]
                 offset == IF offsets THEN Some(s.pos) ELSE None
                 pr == Parse(cleared, offset, full)
             IN  [s |-> pr.s, exc |-> "none", reads |-> sk.reads,
                  skipEnd |-> sk.s.bte, parsed |-> TRUE,
                  parsePos |-> cleared.pos, bteAtParse |-> cleared.bte,
                  told |-> IF offsets THEN "fh" ELSE "none", hint |-> offset,
                  codecOffset |-> pr.offset,
                  offset |-> pr.offset, record |-> pr.record, errors |-> pr.errors]

\* Mutant: the counter of the previous record is still set when the codec
\* is invoked.
ReadRecordBaseNoClear(s, offsets, full) ==
    LET sk == IF s.bte # None THEN SkipToEor(s) ELSE NoSkip(s)
    IN  IF sk.exc # "none" THEN Raised(sk)
        ELSE LET cleared == sk.s
                 offset == IF offsets THEN Some(cleared.pos) ELSE None
                 pr == Parse(cleared, offset, full)
             IN  [s |-> pr.s, exc |-> "none", reads |-> sk.reads,
                  skipEnd |-> sk.s.bte, parsed |-> TRUE,
                  parsePos |-> cleared.pos, bteAtParse |-> cleared.bte,
                  told |-> IF offsets THEN "fh" ELSE "none", hint |-> offset,
                  codecOffset |-> pr.offset,
                  offset |-> pr.offset, record |-> pr.record, errors |-> pr.errors]

\* Mutant: the skip is entered whether or not the counter is set.
ReadRecordBaseAlwaysSkip(s, offsets, full) ==
    LET sk == SkipToEor(s)
    IN  IF sk.exc # "none" THEN Raised(sk)
        ELSE LET cleared == [sk.s EXCEPT !.bte = None]
                 offset == IF offsets THEN Some(cleared.pos) ELSE None
                 pr == Parse(cleared, offset, full)
             IN  [s |-> pr.s, exc |-> "none", reads |-> sk.reads,
                  skipEnd |-> sk.s.bte, parsed |-> TRUE,
                  parsePos |-> cleared.pos, bteAtParse |-> cleared.bte,
                  told |-> IF offsets THEN "fh" ELSE "none", hint |-> offset,
                  codecOffset |-> pr.offset,
                  offset |-> pr.offset, record |-> pr.record, errors |-> pr.errors]

\* RecordStream._read_record
ReadRecordBase(s, offsets, full) ==
    LET sk == IF s.bte # None THEN SkipToEor(s) ELSE NoSkip(s)
    IN  IF sk.exc # "none" THEN Raised(sk)
        ELSE LET cleared == [sk.s EXCEPT !.bte = None]
                 offset == IF offsets THEN Some(cleared.pos) ELSE None
                 pr == Parse(cleared, offset, full)
             IN  [s |-> pr.s, exc |-> "none", reads |-> sk.reads,
                  skipEnd |-> sk.s.bte, parsed |-> TRUE,
                  parsePos |-> cleared.pos, bteAtParse |-> cleared.bte,
                  told |-> IF offsets THEN "fh" ELSE "none", hint |-> offset,
                  codecOffset |-> pr.offset,
                  offset |-> pr.offset, record |-> pr.record, errors |-> pr.errors]

\* Mutant: the position of the decompression adapter is reported.
ReadRecordGzipFhTell(s, offsets, full, far) ==
    LET sk == IF s.bte # None THEN SkipToEor(s) ELSE NoSkip(s)
    IN  IF sk.exc # "none" THEN Raised(sk)
        ELSE LET cleared == [sk.s EXCEPT !.bte = None]
                 offset == IF offsets THEN Some(cleared.pos) ELSE None
                 pr == Parse(cleared, None, full)
             IN  [s |-> pr.s, exc |-> "none", reads |-> sk.reads,
                  skipEnd |-> sk.s.bte, parsed |-> TRUE,
                  parsePos |-> cleared.pos, bteAtParse |-> cleared.bte,
                  told |-> IF offsets THEN "raw" ELSE "none", hint |-> None,
                  codecOffset |-> pr.offset,
                  offset |-> offset, record |-> pr.record, errors |-> pr.errors]

\* GzipRecordStream._read_record
ReadRecordGzip(s, offsets, full, far) ==
    LET sk == IF s.bte # None THEN SkipToEor(s) ELSE NoSkip(s)
    IN  IF sk.exc # "none" THEN Raised(sk)
        ELSE LET cleared == [sk.s EXCEPT !.bte = None]
                 offset == IF offsets THEN Some(RawTell(cleared.pos, far)) ELSE None
                 pr == Parse(cleared, None, full)
             IN  [s |-> pr.s, exc |-> "none", reads |-> sk.reads,
                  skipEnd |-> sk.s.bte, parsed |-> TRUE,
                  parsePos |-> cleared.pos, bteAtParse |-> cleared.bte,
                  told |-> IF offsets THEN "raw" ELSE "none", hint |-> None,
                  codecOffset |-> pr.offset,
                  offset |-> offset, record |-> pr.record, errors |-> pr.errors]

\* Mutant: the caller's offsets flag is passed on to the base class.
ReadRecordGzipFilePass(s, offsets, full) == ReadRecordBase(s, offsets, full)

\* GzipFileStream._read_record
ReadRecordGzipFile(s, offsets, full) == ReadRecordBase(s, FALSE, full)

\* self._read_record(offsets), dispatched on the class of the stream
ReadRecordOf(m, s, offsets, full, far) ==
    CASE m = "record" -> ReadRecordGzip(s, offsets, full, far)
      [] m = "file" -> ReadRecordGzipFile(s, offsets, full)
      [] OTHER -> ReadRecordBase(s, offsets, full)

Stream == [pos |-> pos, bte |-> bytes_to_eor]

----------------------------------------------------------------------------
(* The state after construction: RecordStream.__init__ and the two          *)
(* subclasses' __init__ over a freshly opened source.                       *)

NoCall ==
    [valid |-> FALSE, by |-> "none", offsets |-> FALSE, k |-> None, p |-> 0,
     after |-> "none", exc |-> "none", reads |-> <<>>,
     skipEnd |-> None, parsed |-> FALSE, parsePos |-> 0, bteAtParse |-> None,
     told |-> "none", hint |-> None,
     codecOffset |-> None, offset |-> None, record |-> None, errors |-> <<>>,
     endPos |-> 0, endBte |-> None]

NoGen ==
    [status |-> "none", limit |-> None, offsets |-> FALSE, nrecords |-> 0,
     calls |-> 0, out |-> <<>>]

NoIter == [status |-> "none", yielded |-> <<>>, log |-> <<>>, error |-> ""]

NoOp == [name |-> "none", n |-> 0, bteBefore |-> None]

NoArgs ==
    [record_class |-> None, filename |-> None, file_handle |-> FALSE,
     gzip |-> None, offset |-> None, is_gzip |-> FALSE, guess |-> None]

NotOpened ==
    [called |-> FALSE, exc |-> "none", opened |-> "none", seeked |-> FALSE,
     guessed |-> FALSE, parser |-> None, sniffed |-> FALSE, class |-> "none"]

\* lines 52-53, 130-131, 150: self.fh and the raw source are open
NotClosed == [fh |-> FALSE, raw |-> FALSE]

Init ==
    /\ mode \in {"none", "record", "file"}
    /\ file \in Files
    /\ trunc \in 0..MaxTrunc
    /\ trunc <= file[Len(file)].start
    /\ pos = 0
    /\ bytes_to_eor = None
    /\ last = NoCall
    /\ gen = NoGen
    /\ it = NoIter
    /\ lastOp = NoOp
    /\ ops = 0
    /\ fin = NoArgs
    /\ fout = NotOpened
    /\ closed = NotClosed

----------------------------------------------------------------------------
(* Public byte operations *)

ReadCounts == {CHUNK_SIZE}

\* stream.read(count)
DoRead(count) ==
    /\ ~closed.fh
    /\ ops < MaxOps
    /\ LET r == Read(Stream, count)
       IN  /\ pos' = r.s.pos
           /\ bytes_to_eor' = r.s.bte
           /\ lastOp' = [name |-> "read", n |-> r.n, bteBefore |-> bytes_to_eor]
    /\ ops' = ops + 1
    /\ UNCHANGED <<mode, file, trunc, last, gen, it, fin, fout, closed>>

\* stream.readline()
DoReadline ==
    /\ ~closed.fh
    /\ ops < MaxOps
    /\ LET r == Readline(Stream)
       IN  /\ pos' = r.s.pos
           /\ bytes_to_eor' = r.s.bte
           /\ lastOp' = [name |-> "readline", n |-> r.n, bteBefore |-> bytes_to_eor]
    /\ ops' = ops + 1
    /\ UNCHANGED <<mode, file, trunc, last, gen, it, fin, fout, closed>>

\* fh.seek(offset, whence): the position it leads to
FhSeek(p, offset, whence) ==
    CASE whence = 1 -> p + offset
      [] whence = 2 -> SrcLen + offset
      [] OTHER -> offset

SeekArgs == { <<0, 0>>, <<1, 1>>, <<0, 2>> }

\* RecordStream.seek on a stream value
Seek(s, offset, whence) == [pos |-> FhSeek(s.pos, offset, whence), bte |-> s.bte]

\* stream.seek(offset, pos)
DoSeek(offset, whence) ==
    /\ ~closed.fh
    /\ ops < MaxOps
    /\ FhSeek(pos, offset, whence) \in 0..SrcLen
    /\ LET s == Seek(Stream, offset, whence)
       IN  /\ pos' = s.pos
           /\ bytes_to_eor' = s.bte
    /\ lastOp' = [name |-> "seek", n |-> 0, bteBefore |-> bytes_to_eor]
    /\ ops' = ops + 1
    /\ UNCHANGED <<mode, file, trunc, last, gen, it, fin, fout, closed>>

\* the sizes of the serializations written
WriteSizes == {1}

\* record.write_to(stream): the record's serialization, which writes its w
\* bytes in place to the underlying source (the framing of the container is
\* kept) and so advances the source by w
WriteTo(s, w) == [pos |-> s.pos + w, bte |-> s.bte]

\* Mutant: write counts the bytes it writes against the record being read.
WriteCounting(s, w) ==
    [s |-> [pos |-> s.pos + w,
            bte |-> IF s.bte = None THEN None ELSE Some(s.bte[1] - w)],
     serialized |-> 1]

\* RecordStream.write on a stream value: the stream after it, and how many
\* times the record's serialization was invoked
Write(s, w) == [s |-> WriteTo(s, w), serialized |-> 1]

\* stream.write(record), for a record that serializes to w bytes
DoWrite(w) ==
    /\ ~closed.fh
    /\ ops < MaxOps
    /\ pos + w <= SrcLen
    /\ LET r == Write(Stream, w)
       IN  /\ pos' = r.s.pos
           /\ bytes_to_eor' = r.s.bte
           /\ lastOp' = [name |-> "write", n |-> r.serialized,
                         bteBefore |-> bytes_to_eor]
    /\ ops' = ops + 1
    /\ UNCHANGED <<mode, file, trunc, last, gen, it, fin, fout, closed>>

\* RecordStream.close on a stream of class m: self.fh is closed; self.fh is
\* the raw source itself in a RecordStream, and in the two gzip classes a
\* gzip.GzipFile(fileobj=raw source), whose close() leaves the file object
\* it was given open
Close(m, c) == [fh |-> TRUE, raw |-> IF m = "none" THEN TRUE ELSE c.raw]

\* stream.close()
DoClose ==
    /\ ~closed.fh
    /\ ops < MaxOps
    /\ closed' = Close(mode, closed)
    /\ lastOp' = [name |-> "close", n |-> 0, bteBefore |-> bytes_to_eor]
    /\ ops' = ops + 1
    /\ UNCHANGED <<mode, file, trunc, pos, bytes_to_eor, last, gen, it, fin, fout>>

----------------------------------------------------------------------------
(* One _read_record call made on the stream by a generator *)

CallRecord(res, by, offsets) ==
    [valid |-> TRUE, by |-> by, offsets |-> offsets, k |-> bytes_to_eor, p |-> pos,
     after |-> lastOp.name, exc |-> res.exc, reads |-> res.reads,
     skipEnd |-> res.skipEnd, parsed |-> res.parsed, parsePos |-> res.parsePos,
     bteAtParse |-> res.bteAtParse, told |-> res.told, hint |-> res.hint,
     codecOffset |-> res.codecOffset, offset |-> res.offset,
     record |-> res.record, errors |-> res.errors,
     endPos |-> res.s.pos, endBte |-> res.s.bte]

Calls(res, by, offsets) ==
    /\ pos' = res.s.pos
    /\ bytes_to_eor' = res.s.bte
    /\ last' = CallRecord(res, by, offsets)
    /\ lastOp' = [name |-> "read_record", n |-> 0, bteBefore |-> bytes_to_eor]

----------------------------------------------------------------------------
(* RecordStream.read_records *)

Limits == {None} \cup { Some(n) : n \in 0..MaxLimit }

\* Mutant: the loop runs once more than the limit allows.
WhileCondInclusive(nrecords, limit) ==
    (limit # None /\ nrecords <= limit[1]) \/ limit = None

\* the loop condition `nrecords < limit or limit is None`
WhileCond(nrecords, limit) == (limit # None /\ nrecords < limit[1]) \/ limit = None

\* the generator has just yielded a triple without a record: `break`
Breaks(g) == g.status = "yielded" /\ g.out[Len(g.out)].record = None

\* stream.read_records(limit, offsets): the generator is created, not yet run
\* (a finished __iter__ generator is dropped: one consumer at a time)
GenStart(limit, offsets) ==
    /\ ~closed.fh
    /\ ops < MaxOps
    /\ gen.status \in {"none", "done", "failed"}
    /\ it.status # "running"
    /\ gen' = [status |-> "start", limit |-> limit, offsets |-> offsets,
               nrecords |-> 0, calls |-> 0, out |-> <<>>]
    /\ it' = NoIter
    /\ ops' = ops + 1
    /\ UNCHANGED <<mode, file, trunc, pos, bytes_to_eor, last, lastOp, fin, fout, closed>>

\* the generator after one next(): g is the generator, res the _read_record
\* call it makes if it gets that far
GenStep(g, res) ==
    IF Breaks(g) \/ ~WhileCond(g.nrecords, g.limit)
    THEN [g EXCEPT !.status = "done"]
    ELSE IF res.exc # "none"
    THEN [g EXCEPT !.status = "failed", !.calls = @ + 1]
    ELSE [g EXCEPT !.status = "yielded", !.calls = @ + 1, !.nrecords = @ + 1,
                   !.out = Append(@, [offset |-> res.offset, record |-> res.record,
                                      errors |-> res.errors])]

\* the read-ahead of the gzip adapter is only looked at by raw_fh.tell()
FarChoices == IF mode = "record" /\ gen.offsets THEN BOOLEAN ELSE {FALSE}

\* next() on the read_records generator
GenNext(full, far) ==
    /\ ~closed.fh
    /\ gen.status \in {"start", "yielded"}
    /\ LET res == ReadRecordOf(mode, Stream, gen.offsets, full, far)
           g == GenStep(gen, res)
       IN  /\ gen' = g
           /\ IF g.calls > gen.calls
              THEN Calls(res, "gen", gen.offsets)
              ELSE UNCHANGED <<pos, bytes_to_eor, last, lastOp>>
    /\ UNCHANGED <<mode, file, trunc, it, ops, fin, fout, closed>>

----------------------------------------------------------------------------
(* RecordStream.__iter__ *)

RECURSIVE Join(_)
\* ",".join(str(error) for error in errors)
Join(errors) ==
    IF errors = <<>> THEN ""
    ELSE IF Len(errors) = 1 THEN errors[1]
    ELSE errors[1] \o "," \o Join(Tail(errors))

\* iter(stream): the generator is created, not yet run
\* (a finished read_records generator is dropped: one consumer at a time)
IterStart ==
    /\ ~closed.fh
    /\ ops < MaxOps
    /\ it.status \in {"none", "done", "raised", "failed"}
    /\ gen.status \notin {"start", "yielded"}
    /\ it' = [status |-> "running", yielded |-> <<>>, log |-> <<>>, error |-> ""]
    /\ gen' = NoGen
    /\ ops' = ops + 1
    /\ UNCHANGED <<mode, file, trunc, pos, bytes_to_eor, last, lastOp, fin, fout, closed>>

\* Mutant: a read with errors and no record is skipped over.
IterStepContinue(g, res) ==
    IF res.exc # "none"
    THEN [g EXCEPT !.status = "failed"]
    ELSE LET logged == Append(g.log, [record |-> res.record, errors |-> res.errors])
         IN  IF res.record # None
             THEN [g EXCEPT !.log = logged, !.yielded = Append(@, res.record)]
             ELSE IF res.errors # <<>>
             THEN [g EXCEPT !.log = logged]
             ELSE [g EXCEPT !.log = logged, !.status = "done"]

\* Mutant: errors are looked at before the record, and raise.
IterStepErrorsFirst(g, res) ==
    IF res.exc # "none"
    THEN [g EXCEPT !.status = "failed"]
    ELSE LET logged == Append(g.log, [record |-> res.record, errors |-> res.errors])
         IN  IF res.errors # <<>>
             THEN [g EXCEPT !.log = logged, !.status = "raised",
                            !.error = "Errors while decoding " \o Join(res.errors)]
             ELSE IF res.record # None
             THEN [g EXCEPT !.log = logged, !.yielded = Append(@, res.record)]
             ELSE [g EXCEPT !.log = logged, !.status = "done"]

\* the generator after one round of the loop, given the _read_record result
IterStep(g, res) ==
    IF res.exc # "none"
    THEN [g EXCEPT !.status = "failed"]
    ELSE LET logged == Append(g.log, [record |-> res.record, errors |-> res.errors])
         IN  IF res.record # None
             THEN [g EXCEPT !.log = logged, !.yielded = Append(@, res.record)]
             ELSE IF res.errors # <<>>
             THEN [g EXCEPT !.log = logged, !.status = "raised",
                            !.error = "Errors while decoding " \o Join(res.errors)]
             ELSE [g EXCEPT !.log = logged, !.status = "done"]

\* next() on the __iter__ generator
IterNext(full) ==
    /\ ~closed.fh
    /\ it.status = "running"
    /\ LET res == ReadRecordOf(mode, Stream, FALSE, full, FALSE)
       IN  /\ it' = IterStep(it, res)
           /\ Calls(res, "iter", FALSE)
    /\ UNCHANGED <<mode, file, trunc, gen, ops, fin, fout, closed>>

----------------------------------------------------------------------------
(* open_record_stream.  File names are sequences of characters.             *)

Name(chars) == Some(chars)

Filenames ==
    { None,
      Name(<<>>),
      Name(<<"a", ".", "g", "z">>),
      Name(<<"a", ".", "w", "a", "r", "c">>),
      Name(<<"a", "g", "z">>),
      Name(<<"s", "3", ":", "/", "/", "b", "/", "a", ".", "g", "z">>),
      Name(<<"s", "3", ":", "/", "/", "b", "/", "a">>) }

\* str.startswith and str.endswith
StartsWith(str, prefix) ==
    Len(str) >= Len(prefix) /\ SubSeq(str, 1, Len(prefix)) = prefix
EndsWith(str, suffix) ==
    Len(str) >= Len(suffix) /\ SubSeq(str, Len(str) - Len(suffix) + 1, Len(str)) = suffix

GzipModes == { Some("auto"), Some("record"), Some("file"), None }

FactoryArgs ==
    [record_class : {None, Some("warc")},
     filename : Filenames,
     file_handle : BOOLEAN,
     gzip : GzipModes,
     offset : {None, Some(5)},
     is_gzip : BOOLEAN,
     guess : {None, Some("arc")}]

\* lines 14-21: the handle the stream will read
OpenHandle(a) ==
    IF a.file_handle THEN [exc |-> "none", opened |-> "given", seeked |-> FALSE]
    ELSE IF a.filename = None
    THEN [exc |-> "AttributeError", opened |-> "none", seeked |-> FALSE]
    ELSE IF StartsWith(a.filename[1], <<"s", "3", ":", "/", "/">>)
    THEN [exc |-> "none", opened |-> "s3", seeked |-> FALSE]
    ELSE IF a.filename[1] = <<>>
    THEN [exc |-> "IOError", opened |-> "none", seeked |-> FALSE]
    ELSE [exc |-> "none", opened |-> "local", seeked |-> a.offset # None]

\* Mutant: 'auto' asks for the suffix and the magic bytes together.
ResolveGzipBoth(gzip, filename, is_gzip) ==
    IF gzip = Some("auto")
    THEN LET by_name == filename # None /\ filename[1] # <<>>
                            /\ EndsWith(filename[1], <<".", "g", "z">>)
         IN  [gzip |-> IF by_name /\ is_gzip THEN Some("record") ELSE None,
              sniffed |-> by_name]
    ELSE [gzip |-> gzip, sniffed |-> FALSE]

\* lines 31-38: the gzip mode once 'auto' is resolved, and whether
\* is_gzip_file was called on the handle
ResolveGzip(gzip, filename, is_gzip) ==
    IF gzip = Some("auto")
    THEN LET by_name == filename # None /\ filename[1] # <<>>
                            /\ EndsWith(filename[1], <<".", "g", "z">>)
         IN  [gzip |-> IF by_name \/ is_gzip THEN Some("record") ELSE None,
              sniffed |-> ~by_name]
    ELSE [gzip |-> gzip, sniffed |-> FALSE]

\* lines 40-45: the class constructed
StreamClass(gzip) ==
    IF gzip = Some("record") THEN "GzipRecordStream"
    ELSE IF gzip = Some("file") THEN "GzipFileStream"
    ELSE "RecordStream"

\* Mutant: format detection runs on every call, a supplied record type
\* included, and its answer replaces the supplied type.
OpenRecordStreamAlwaysGuess(a) ==
    LET h == OpenHandle(a)
        record_class == a.guess
        resolved == ResolveGzip(a.gzip, a.filename, a.is_gzip)
    IN  IF h.exc # "none"
        THEN [called |-> TRUE, exc |-> h.exc, opened |-> h.opened, seeked |-> FALSE,
              guessed |-> FALSE, parser |-> None, sniffed |-> FALSE, class |-> "none"]
        ELSE IF record_class = None
        THEN [called |-> TRUE, exc |-> "StandardError", opened |-> h.opened,
              seeked |-> h.seeked, guessed |-> TRUE, parser |-> None,
              sniffed |-> FALSE, class |-> "none"]
        ELSE [called |-> TRUE, exc |-> "none", opened |-> h.opened,
              seeked |-> h.seeked, guessed |-> TRUE, parser |-> record_class,
              sniffed |-> resolved.sniffed, class |-> StreamClass(resolved.gzip)]

\* lines 8-45: one call of open_record_stream
OpenRecordStream(a) ==
    LET h == OpenHandle(a)
        guessed == a.record_class = None
        record_class == IF guessed THEN a.guess ELSE a.record_class
        resolved == ResolveGzip(a.gzip, a.filename, a.is_gzip)
    IN  IF h.exc # "none"
        THEN [called |-> TRUE, exc |-> h.exc, opened |-> h.opened, seeked |-> FALSE,
              guessed |-> FALSE, parser |-> None, sniffed |-> FALSE, class |-> "none"]
        ELSE IF record_class = None
        THEN [called |-> TRUE, exc |-> "StandardError", opened |-> h.opened,
              seeked |-> h.seeked, guessed |-> guessed, parser |-> None,
              sniffed |-> FALSE, class |-> "none"]
        ELSE [called |-> TRUE, exc |-> "none", opened |-> h.opened,
              seeked |-> h.seeked, guessed |-> guessed, parser |-> record_class,
              sniffed |-> resolved.sniffed, class |-> StreamClass(resolved.gzip)]

\* the class of stream serving each mode of the stream model
ModeOf(class) ==
    CASE class = "GzipRecordStream" -> "record"
      [] class = "GzipFileStream" -> "file"
      [] OTHER -> "none"

FactoryInit ==
    /\ fin \in FactoryArgs
    /\ fout = NotOpened
    /\ mode = "none"
    /\ file = Layout(<<>>)
    /\ trunc = 0
    /\ pos = 0
    /\ bytes_to_eor = None
    /\ last = NoCall
    /\ gen = NoGen
    /\ it = NoIter
    /\ lastOp = NoOp
    /\ ops = 0
    /\ closed = NotClosed

\* one call of open_record_stream with the arguments drawn
FactoryOpen ==
    /\ ~fout.called
    /\ fout' = OpenRecordStream(fin)
    /\ mode' = ModeOf(fout'.class)
    /\ UNCHANGED <<file, trunc, pos, bytes_to_eor, last, gen, it, lastOp, ops, fin, closed>>

FactoryNext == FactoryOpen

FactorySpec == FactoryInit /\ [][FactoryNext]_vars

----------------------------------------------------------------------------

Next ==
    \/ \E count \in ReadCounts : DoRead(count)
    \/ DoReadline
    \/ \E a \in SeekArgs : DoSeek(a[1], a[2])
    \/ \E limit \in Limits, offsets \in BOOLEAN : GenStart(limit, offsets)
    \/ \E full \in BOOLEAN, far \in FarChoices : GenNext(full, far)
    \/ IterStart
    \/ \E full \in BOOLEAN : IterNext(full)

Spec == Init /\ [][Next]_vars

\* The whole life of a stream: every public operation, write and close
\* included, with read_records called without a limit.
LifeNext ==
    \/ \E count \in ReadCounts : DoRead(count)
    \/ DoReadline
    \/ \E a \in SeekArgs : DoSeek(a[1], a[2])
    \/ \E w \in WriteSizes : DoWrite(w)
    \/ DoClose
    \/ \E offsets \in BOOLEAN : GenStart(None, offsets)
    \/ \E full \in BOOLEAN, far \in FarChoices : GenNext(full, far)
    \/ IterStart
    \/ \E full \in BOOLEAN : IterNext(full)

LifeSpec == Init /\ [][LifeNext]_vars

\* read_records with every limit, between public reads.
LimitNext ==
    \/ \E count \in ReadCounts : DoRead(count)
    \/ \E limit \in Limits, offsets \in BOOLEAN : GenStart(limit, offsets)
    \/ \E full \in BOOLEAN, far \in FarChoices : GenNext(full, far)

LimitSpec == Init /\ [][LimitNext]_vars

----------------------------------------------------------------------------
(* Reopening the file at an offset: a fresh stream of the same class over   *)
(* the same source, the raw source positioned at offset o, one record read. *)
(* Under gzip the adapter starts decompressing at o, which yields the       *)
(* member that starts there, or fails when no member starts there.          *)

FreshRead(o) ==
    IF mode = "none"
    THEN ReadRecordOf(mode, [pos |-> o, bte |-> None], TRUE, FALSE, FALSE)
    ELSE IF \E i \in 1..Len(file) : RawStart(i) = o
    THEN ReadRecordOf(mode,
                      [pos |-> UnitStart(CHOOSE i \in 1..Len(file) : RawStart(i) = o),
                       bte |-> None],
                      TRUE, FALSE, FALSE)
    ELSE [exc |-> "not gzip", record |-> None]

\* Where record number i begins in the source the stream was built over.
RecordBegins(i) == IF mode = "none" THEN UnitStart(i) ELSE RawStart(i)

----------------------------------------------------------------------------
(* Properties *)

\* C1: skip correctness.  When _read_record is called with bytes_to_eor = k > 0
\* at source position p and the source holds at least k more bytes, the call
\* does not raise and the codec is invoked at exactly p + k.
SkipCorrectness ==
    (last.valid /\ last.k # None /\ last.k[1] > 0 /\ SrcLen - last.p >= last.k[1])
        => /\ last.exc = "none"
           /\ last.parsed
           /\ last.parsePos = last.p + last.k[1]

\* a skip of more than one chunk that ended on the start of the next record
SkipCorrectnessWitness ==
    /\ last.valid /\ last.k # None /\ last.k[1] > CHUNK_SIZE
    /\ SrcLen - last.p >= last.k[1]
    /\ last.parsed /\ last.parsePos = last.p + last.k[1]
    /\ Len(last.reads) > 1
    /\ UnitAt(last.parsePos) # 0

\* C2: truncation detection.  When _read_record is called with bytes_to_eor =
\* k > 0 and the source holds fewer than k bytes, the call fails in the skip
\* and the codec is not invoked; a skip that returns has advanced k bytes.
TruncationDetected ==
    (last.valid /\ last.k # None /\ last.k[1] > 0)
        => /\ (SrcLen - last.p < last.k[1]) => (last.exc = "short" /\ ~last.parsed)
           /\ (last.exc = "none") => (last.parsePos - last.p = last.k[1])

TruncationDetectedWitness ==
    /\ last.valid /\ last.k # None /\ last.k[1] > 0
    /\ SrcLen - last.p < last.k[1]
    /\ last.exc = "short"
    /\ trunc > 0

\* C3: offset fidelity.  In the uncompressed and per-record modes every record
\* that read_records returns with offsets enabled is reported with the source
\* position of its first byte, and a fresh stream positioned there reads the
\* same record.
OffsetFidelity ==
    (mode \in {"none", "record"} /\ gen.offsets)
        => \A j \in 1..Len(gen.out) :
              gen.out[j].record # None
                  => /\ gen.out[j].offset # None
                     /\ gen.out[j].offset[1] = RecordBegins(gen.out[j].record[1])
                     /\ FreshRead(gen.out[j].offset[1]).exc = "none"
                     /\ FreshRead(gen.out[j].offset[1]).record = gen.out[j].record

\* a second record returned after the unread bytes of the first were skipped
OffsetFidelityWitness ==
    /\ mode = "none" /\ gen.offsets
    /\ Len(gen.out) = 2
    /\ gen.out[2].record = Some(2)
    /\ last.k # None /\ last.k[1] > 0 /\ Len(last.reads) > 0
    /\ FreshRead(gen.out[2].offset[1]).record = Some(2)

\* C4: in per-record mode the offset of the triple is the position of the raw
\* source taken after the skip and before the codec runs, the codec is called
\* with offset None, and without offsets the triple carries None.
RawOffsetCaptured ==
    (last.valid /\ mode = "record" /\ last.exc = "none")
        => /\ last.hint = None
           /\ last.offsets => last.offset \in { Some(RawTell(last.parsePos, far)) :
                                                    far \in BOOLEAN }
           /\ ~last.offsets => last.offset = None

\* the raw position differs from the adapter's before and after the codec ran
RawOffsetCapturedWitness ==
    /\ last.valid /\ mode = "record" /\ last.exc = "none" /\ last.offsets
    /\ last.k # None /\ last.k[1] > 0
    /\ last.record # None
    /\ last.offset = Some(RawStart(2))
    /\ RawStart(2) # last.parsePos /\ RawStart(2) # last.endPos
    /\ last.p # last.parsePos /\ last.endPos # last.parsePos

CommaJoined(errors) ==
    CASE Len(errors) = 1 -> errors[1]
      [] Len(errors) = 2 -> errors[1] \o "," \o errors[2]
      [] OTHER -> ""

\* C6: plain iteration yields the records the codec returned, in order; it
\* ends without raising on a result with no record and no errors, raises the
\* decode error with the messages joined by commas on a result with no record
\* and errors, and never calls the codec after a result with no record.
PlainIteration ==
    LET n == Len(it.log)
        m == IF n > 0 /\ it.log[n].record = None THEN n - 1 ELSE n
    IN  /\ \A j \in 1..(n - 1) : it.log[j].record # None
        /\ it.yielded = [j \in 1..m |-> it.log[j].record]
        /\ it.status = "done"
              <=> (n > 0 /\ it.log[n].record = None /\ it.log[n].errors = <<>>)
        /\ it.status = "raised"
              <=> (n > 0 /\ it.log[n].record = None /\ it.log[n].errors # <<>>)
        /\ it.status = "raised"
              => it.error = "Errors while decoding " \o CommaJoined(it.log[n].errors)
        /\ it.status # "raised" => it.error = ""

\* a record was yielded and then the decode error raised, with two messages
PlainIterationWitness ==
    /\ it.status = "raised"
    /\ Len(it.yielded) > 0
    /\ it.error = "Errors while decoding bad header,bad length"

\* C7: read_records yields min(limit, j) triples, j the index of the first
\* result without a record, and j triples when the limit is None; the triple
\* without a record is yielded and the codec is not called after it.
BoundedIteration ==
    LET n == Len(gen.out)
    IN  /\ \A j \in 1..(n - 1) : gen.out[j].record # None
        /\ gen.limit # None => n <= gen.limit[1]
        /\ gen.nrecords = n
        /\ gen.calls = IF gen.status = "failed" THEN n + 1 ELSE n
        /\ gen.status = "done"
              => \/ n > 0 /\ gen.out[n].record = None
                 \/ gen.limit # None /\ n = gen.limit[1]

\* the generator stopped at a triple without a record before its limit
BoundedIterationWitness ==
    /\ gen.status = "done"
    /\ gen.limit = Some(2)
    /\ Len(gen.out) = 1
    /\ gen.out[1].record = None

\* C8: bytes_to_eor is None or not negative, and a read or readline made
\* while it is set lowers it by the number of bytes returned.
CounterNeverNegative ==
    /\ bytes_to_eor = None \/ bytes_to_eor[1] >= 0
    /\ (lastOp.name \in {"read", "readline"} /\ lastOp.bteBefore # None)
          => bytes_to_eor = Some(lastOp.bteBefore[1] - lastOp.n)

\* C9: after a seek bytes_to_eor is None, and a _read_record that follows a
\* seek skips nothing and calls the codec at the position seeked to.
SeekClearsCounter ==
    /\ lastOp.name = "seek" => bytes_to_eor = None
    /\ (last.valid /\ last.after = "seek" /\ last.exc = "none")
          => (last.reads = <<>> /\ last.parsePos = last.p)

\* the file names of the model that end in .gz
GzNamed ==
    fin.filename \in { Name(<<"a", ".", "g", "z">>),
                       Name(<<"s", "3", ":", "/", "/", "b", "/", "a", ".", "g", "z">>) }

\* C10: with gzip 'auto' the factory builds the per-record stream exactly when
\* the file name ends in .gz or the handle sniffs as gzip, and the plain
\* stream otherwise; the whole-file stream only for gzip 'file'; an explicit
\* mode gets its own class.
FactoryModeSelection ==
    (fout.called /\ fout.exc = "none")
        => /\ fin.gzip = Some("auto")
                => /\ fout.class = "GzipRecordStream" <=> (GzNamed \/ fin.is_gzip)
                   /\ fout.class \in {"GzipRecordStream", "RecordStream"}
           /\ fout.class = "GzipFileStream" => fin.gzip = Some("file")
           /\ fin.gzip = Some("record") => fout.class = "GzipRecordStream"
           /\ fin.gzip = Some("file") => fout.class = "GzipFileStream"
           /\ fin.gzip = None => fout.class = "RecordStream"

\* 'auto' resolved to the per-record stream by the file name alone
FactoryModeSelectionWitness ==
    /\ fout.called /\ fout.exc = "none"
    /\ fin.gzip = Some("auto") /\ ~fin.is_gzip
    /\ fout.class = "GzipRecordStream"

\* C11: a call with no record type whose format detection finds none fails
\* with an error: no stream class is constructed and no parser is built; a
\* call with a record type never runs the detection, and a call that does
\* return a stream has a parser of the supplied or the detected type.
DetectionFailure ==
    fout.called
        => /\ (fin.record_class = None /\ fin.guess = None)
                => /\ fout.exc # "none"
                   /\ fout.parser = None
                   /\ fout.class = "none"
                   /\ OpenHandle(fin).exc = "none"
                         => (fout.exc = "StandardError" /\ fout.guessed)
           /\ fin.record_class # None
                => /\ ~fout.guessed
                   /\ fout.exc = "none" => fout.parser = fin.record_class
           /\ fout.exc = "none" => fout.parser # None

\* the handle opened, no type was given and the detection found none
DetectionFailureWitness ==
    /\ fout.called /\ fout.guessed
    /\ fin.record_class = None /\ fin.guess = None
    /\ fout.opened = "local"
    /\ fout.exc = "StandardError" /\ fout.class = "none"

\* C12: once close() has returned, the raw source the stream was constructed
\* over is closed, whichever of the three classes the stream is.
CloseClosesSource == closed.fh => closed.raw

\* the bytes a skip has to pass when the counter is k
ToSkip(k) == IF k = None \/ k[1] <= 0 THEN 0 ELSE k[1]

\* C13: in the base _read_record the previous record is skipped first, the
\* counter is then None, the position is taken after the skip and only when
\* offsets is true (otherwise fh.tell is not called and the hint is None),
\* the codec is invoked with that hint while the counter is None, and the
\* triple returned is the codec's record, errors and offset.
BaseOrdering ==
    (last.valid /\ mode \in {"none", "file"} /\ last.exc = "none")
        => /\ last.parsed
           /\ last.parsePos = last.p + ToSkip(last.k)
           /\ last.bteAtParse = None
           /\ IF last.offsets /\ mode = "none"
              THEN last.told = "fh" /\ last.hint = Some(last.parsePos)
              ELSE last.told = "none" /\ last.hint = None
           /\ LET pr == Parse([pos |-> last.parsePos, bte |-> None], last.hint, FALSE)
              IN  /\ last.codecOffset = pr.offset
                  /\ last.offset = pr.offset
                  /\ last.record = pr.record
                  /\ last.errors = pr.errors

\* a call that skipped the rest of a record, took the position and got
\* another offset back from the codec
BaseOrderingWitness ==
    /\ last.valid /\ mode = "none" /\ last.offsets /\ last.exc = "none"
    /\ last.k # None /\ last.k[1] > 0
    /\ last.hint = Some(last.p + last.k[1])
    /\ last.codecOffset # last.hint
    /\ last.offset = last.codecOffset

\* C14: no _read_record call, after whatever public operations, ends in the
\* 'bytes_to_eor is unset' error: the skip is not entered while the counter
\* is None, and such a call reads nothing before the codec.
UnsetErrorUnreachable ==
    last.valid
        => /\ last.exc # "unset"
           /\ last.k = None => (last.exc = "none" /\ last.reads = <<>>)

\* a call on a per-record gzip stream made with the counter None, after a
\* write
UnsetErrorUnreachableWitness ==
    /\ last.valid /\ mode = "record"
    /\ last.k = None /\ last.after = "write"
    /\ last.exc = "none" /\ last.parsed

\* the number of chunks in k bytes
Chunks(k) == (k + CHUNK_SIZE - 1) \div CHUNK_SIZE

\* C15: a skip entered with the counter k >= 0 ends; each of its reads asks
\* for min(CHUNK_SIZE, what is left of the counter), and it ends either with
\* the counter 0 after ceil(k / CHUNK_SIZE) reads that passed exactly k bytes
\* or with the truncation error at a read that came back short.
ChunkBoundedSkip ==
    (last.valid /\ last.k # None /\ last.k[1] >= 0)
        => LET k == last.k[1]
               n == Len(last.reads)
           IN  /\ \A j \in 1..n :
                     /\ last.reads[j] = Min(CHUNK_SIZE, k - (j - 1) * CHUNK_SIZE)
                     /\ last.reads[j] >= 1
               /\ last.exc \in {"none", "short"}
               /\ last.exc = "none"
                     => /\ n = Chunks(k)
                        /\ last.skipEnd = Some(0)
                        /\ last.parsePos = last.p + k
               /\ last.exc = "short"
                     => /\ n \in 1..Chunks(k)
                        /\ last.skipEnd[1] > 0
                        /\ last.endPos = SrcLen

\* a skip of two whole chunks and one byte more
ChunkBoundedSkipWitness ==
    /\ last.valid /\ last.exc = "none"
    /\ last.k = Some(2 * CHUNK_SIZE + 1)
    /\ last.reads = <<CHUNK_SIZE, CHUNK_SIZE, 1>>
    /\ last.skipEnd = Some(0)

\* C16: a write invokes the record's serialization once and leaves the
\* counter as it was, None or a number, and the _read_record that follows a
\* write enters with the counter of before the write and skips that much.
WriteNoBookkeeping ==
    [][ /\ (ops' = ops + 1 /\ lastOp'.name = "write")
              => (lastOp'.n = 1 /\ bytes_to_eor' = bytes_to_eor)
        /\ (lastOp.name = "write" /\ lastOp'.name = "read_record")
              => /\ last'.valid
                 /\ last'.k = lastOp.bteBefore
                 /\ last'.exc = "none"
                       => last'.parsePos = pos + ToSkip(lastOp.bteBefore)
      ]_vars

\* a write between two record reads, the first of which left three bytes
\* of its record unread
WriteNoBookkeepingWitness ==
    /\ last.valid /\ last.after = "write" /\ last.exc = "none"
    /\ last.k = Some(3)
    /\ last.reads = <<3>>

\* C17: in plain iteration a read that returns a record together with errors
\* yields the record and raises nothing: its errors are dropped and the
\* iteration goes on to the next read; the decode error is only raised for
\* a read without a record, and carries that read's errors alone.
ErrorsWithRecordDiscarded ==
    LET n == Len(it.log)
    IN  /\ \A j \in 1..n :
              (it.log[j].record # None /\ it.log[j].errors # <<>>)
                  => /\ Len(it.yielded) >= j
                     /\ it.yielded[j] = it.log[j].record
                     /\ j = n => (it.status \in {"running", "failed"} /\ it.error = "")
        /\ it.status = "raised"
              => /\ it.log[n].record = None
                 /\ it.error = "Errors while decoding " \o CommaJoined(it.log[n].errors)

\* a record that came with an error was yielded, and the next read yielded
\* another record
ErrorsWithRecordDiscardedWitness ==
    /\ Len(it.log) >= 2 /\ Len(it.yielded) >= 2
    /\ it.log[1].record # None /\ it.log[1].errors = <<"odd header">>
    /\ it.yielded[1] = it.log[1].record
    /\ it.yielded[2] = it.log[2].record
    /\ it.error = ""

\* C18: a _read_record entered with the counter zero or below reads nothing
\* in the skip and raises nothing; the counter is reset to None and the
\* codec is invoked at the position the call found the source at.
NothingLeftToSkip ==
    (last.valid /\ last.k # None /\ last.k[1] <= 0)
        => /\ last.reads = <<>>
           /\ last.exc = "none"
           /\ last.skipEnd = last.k
           /\ last.parsed
           /\ last.bteAtParse = None
           /\ last.parsePos = last.p

\* a call entered with the counter below zero, after a public read went
\* past the end of the record
NothingLeftToSkipWitness ==
    /\ last.valid /\ last.k # None /\ last.k[1] < 0
    /\ last.after = "read"
    /\ last.parsed /\ last.parsePos = last.p
    /\ last.errors = <<"ignored line">>

====
